---- MODULE Spec2Model ----
(***************************************************************************)
(* StandardAutoscaler (python/ray/autoscaler/_private/autoscaler.py): the  *)
(* autoscaling control loop.  update() is called periodically by the       *)
(* monitor; its body _update() snapshots the workers, terminates idle,     *)
(* outdated and excess workers, enqueues launches, reaps finished          *)
(* updaters, dispatches new updaters and probes for recovery.              *)
(*                                                                         *)
(* Times are seconds.  Resource bundles and node capacities are modelled   *)
(* by their CPU count (one resource name).                                 *)
(***************************************************************************)
EXTENDS Integers, Sequences, FiniteSets, TLC

\* ------------------------------------------------------------- bounds
MaxNodes == 2
MaxElapsed == 2

\* The most nodes with a launch pending at one time, in the launch
\* accounting.
MaxLaunch == 3

\* ---------------------------------------------------------- constants
\* time.time() when the first update() call can happen (last_update_time
\* starts at 0.0, so the first call is never throttled).
StartTime == 1000
\* update_interval_s (constructor argument).
UpdateIntervalS == 1
\* max_failures (constructor argument).
MaxFailures == 1
\* AUTOSCALER_HEARTBEAT_TIMEOUT_S.
HeartbeatTimeoutS == 30
\* max_launch_batch (constructor argument).
MaxLaunchBatch == 2
\* The launch pool: ceil(max_concurrent_launches / max_launch_batch) threads.
MaxBatches == 1
\* config["idle_timeout_minutes"].
IdleTimeoutMinutes == 1

NodeIds == 1..MaxNodes
NodeTypes == {"A", "B"}
\* tags.get(TAG_RAY_USER_NODE_TYPE) of a node that carries no such tag.
NoType == "none"

\* provider.internal_ip(node_id): one IP per node.
internal_ip(node_id) == 100 + node_id
\* load_metrics.local_ip, the head node's IP.
HeadIp == 100

STATUS_UP_TO_DATE == "up-to-date"

VARIABLES
    \* the node provider
    provider_nodes,     \* non_terminated_nodes({kind: worker}), in listing order
    node_tags,          \* node_tags(node_id): [type, launch, status, runtime]
    \* load metrics
    last_used_time_by_ip,
    last_heartbeat_time_by_ip,
    \* the wall clock and the YAML file at config_path
    clock,
    config_file,
    \* StandardAutoscaler fields
    config,
    runtime_hash,
    file_mounts_contents_hash,
    available_node_types,
    scheduler_config,         \* what the ResourceDemandScheduler was last
                              \* constructed or reset with
    updaters,                 \* node_id -> "none" | "alive" | "exit0" | "exit1"
    num_failed_updates,
    num_successful_updates,
    num_failures,
    last_update_time,
    resource_demand_vector,
    pending_launches,
    launch_queue,
    \* threads
    updater_threads,          \* node_id -> number of live updater threads
    launching,                \* requests taken off the queue by a NodeLauncher
    \* the position of update() and the locals of _update()
    pc,
    now,
    nodes,
    sorted_node_ids,
    nodes_to_terminate,
    to_launch,
    T,
    \* how the last update() call ended, and whether launches were in flight
    \* when its tick body began
    outcome,
    quiet,
    failed_in_a_row,          \* tick bodies that failed since the last one
                              \* that returned
    last_request,             \* the last request_resources call: what it
                              \* was given and the exception it raised
    exc                       \* the exception update() is handling

providerVars == <<provider_nodes, node_tags>>
metricVars == <<last_used_time_by_ip, last_heartbeat_time_by_ip>>
configVars == <<config_file, config, runtime_hash, file_mounts_contents_hash,
                available_node_types, scheduler_config>>
updaterVars == <<updaters, num_failed_updates, num_successful_updates,
                 updater_threads>>
launchVars == <<pending_launches, launch_queue, launching>>
localVars == <<now, nodes, sorted_node_ids, nodes_to_terminate, to_launch, T,
               quiet>>
vars == <<provider_nodes, node_tags, last_used_time_by_ip,
          last_heartbeat_time_by_ip, clock, config_file, config, runtime_hash,
          file_mounts_contents_hash, available_node_types, scheduler_config,
          updaters, num_failed_updates,
          num_successful_updates, num_failures, last_update_time,
          resource_demand_vector, pending_launches, launch_queue,
          updater_threads, launching, pc, now, nodes, sorted_node_ids,
          nodes_to_terminate, to_launch, T, outcome, quiet,
          failed_in_a_row, last_request, exc>>

\* ------------------------------------------------------------ helpers
Range(s) == {s[i] : i \in 1..Len(s)}

Min2(a, b) == IF a <= b THEN a ELSE b

MinOf(S) == CHOOSE x \in S : \A y \in S : x <= y

\* The elements of s not in the set S, in order.
Without(s, S) == SelectSeq(s, LAMBDA x : x \notin S)

\* ------------------------------------------------- node-tag predicates
\* hash_launch_conf(launch_config, auth): a digest, one value per input.
hash_launch_conf(launch_config, auth) == <<"launch", launch_config, auth>>

\* The launch config of a node type under configuration cfg: worker_nodes
\* updated with the type's node_config.
LaunchConfigOf(cfg, node_type) ==
    IF node_type # NoType
    THEN <<cfg.worker_nodes, cfg.available_node_types[node_type].node_config>>
    ELSE <<cfg.worker_nodes>>

launch_config_ok(node_id) ==
    LET node_type == node_tags[node_id].type
        calculated_launch_hash ==
            hash_launch_conf(LaunchConfigOf(config, node_type), config.auth)
    IN  ~(calculated_launch_hash # node_tags[node_id].launch)

\* --------------------------------------------- _sort_based_on_last_used
\* min(last_used.values()) raises ValueError on an empty mapping.
SortRaises(last_used) == DOMAIN last_used = {}

\* updated_last_used: unknown IPs count as used before the oldest known IP.
UpdatedLastUsed(node_list, last_used) ==
    LET least_recently_used == MinOf({last_used[ip] : ip \in DOMAIN last_used})
    IN  [node_id \in Range(node_list) |->
            IF internal_ip(node_id) \in DOMAIN last_used
            THEN last_used[internal_ip(node_id)]
            ELSE least_recently_used - 1]

RECURSIVE InsertDescending(_, _, _)
InsertDescending(s, x, key) ==
    IF s = <<>> THEN <<x>>
    ELSE IF key[Head(s)] >= key[x]
         THEN <<Head(s)>> \o InsertDescending(Tail(s), x, key)
         ELSE <<x>> \o s

\* sorted(nodes, key, reverse=True): stable, most recently used first.
RECURSIVE SortedDescending(_, _)
SortedDescending(s, key) ==
    IF s = <<>> THEN <<>>
    ELSE InsertDescending(SortedDescending(SubSeq(s, 1, Len(s) - 1), key),
                          s[Len(s)], key)

\* The provider's listing order, not sorted.
listing_order(node_list, last_used) == node_list

sort_based_on_last_used(node_list, last_used) ==
    SortedDescending(node_list, UpdatedLastUsed(node_list, last_used))

\* ------------------------------------------------ get_bin_pack_residual
\* First fit: each demand is subtracted from the first node it fits on.
RECURSIVE FirstFitIndex(_, _, _)
FirstFitIndex(node_resources, demand, i) ==
    IF i > Len(node_resources) THEN 0
    ELSE IF node_resources[i] >= demand THEN i
         ELSE FirstFitIndex(node_resources, demand, i + 1)

RECURSIVE get_bin_pack_residual(_, _)
get_bin_pack_residual(node_resources, resource_demands) ==
    IF resource_demands = <<>>
    THEN [unfulfilled |-> <<>>, remaining |-> node_resources]
    ELSE LET demand == Head(resource_demands)
             i == FirstFitIndex(node_resources, demand, 1)
             after == IF i = 0 THEN node_resources
                      ELSE [node_resources EXCEPT ![i] = @ - demand]
             rest == get_bin_pack_residual(after, Tail(resource_demands))
         IN  [unfulfilled |-> IF i = 0 THEN <<demand>> \o rest.unfulfilled
                              ELSE rest.unfulfilled,
              remaining |-> rest.remaining]

\* --------------------------------------- _get_nodes_allowed_to_terminate
\* resource_demand_vector_node_ids: the nodes that carry a node type tag.
TypedNodeIds(sorted_ids) ==
    SelectSeq(sorted_ids, LAMBDA n : node_tags[n].type # NoType)

MaxNodeResources(ids) ==
    [i \in 1..Len(ids) |->
        available_node_types[node_tags[ids[i]].type].resources]

get_nodes_allowed_to_terminate(sorted_ids) ==
    LET ids == TypedNodeIds(sorted_ids)
        max_node_resources == MaxNodeResources(ids)
        packed == get_bin_pack_residual(max_node_resources,
                                        resource_demand_vector)
    IN  [node_id \in Range(ids) |->
            LET i == CHOOSE j \in 1..Len(ids) : ids[j] = node_id
            IN  IF packed.unfulfilled # <<>> THEN FALSE
                ELSE IF packed.remaining[i] # max_node_resources[i] THEN FALSE
                ELSE TRUE]

\* ------------------------------------------ _keep_min_worker_of_node_type
\* node_type_counts after the call (the counter is updated by reference).
CountsAfter(node_id, node_type_counts) ==
    IF node_tags[node_id].type # NoType
    THEN [node_type_counts EXCEPT ![node_tags[node_id].type] = @ + 1]
    ELSE node_type_counts

\* The value returned, given the counters after the increment.
keep_min_worker_of_node_type(node_id, counts_after) ==
    IF node_tags[node_id].type # NoType
    THEN LET node_type == node_tags[node_id].type
             min_workers == available_node_types[node_type].min_workers
             max_workers == available_node_types[node_type].max_workers
         IN  counts_after[node_type] <= Min2(min_workers, max_workers)
    ELSE FALSE

\* ----------------------------------- _update, lines 163-196: idle/outdated
\* The idle test looking last_used up by node id instead of by ip.
IsIdleByNodeId(node_id, last_used, horizon) ==
    /\ node_id \in DOMAIN last_used
    /\ last_used[node_id] < horizon

IsIdle(node_id, last_used, horizon) ==
    /\ internal_ip(node_id) \in DOMAIN last_used
    /\ last_used[internal_ip(node_id)] < horizon

\* nodes_allowed_to_terminate.get(node_id, True)
AllowedGet(allowed, node_id) ==
    IF node_id \in DOMAIN allowed THEN allowed[node_id] ELSE TRUE

\* The skip test with the launch hash left out.
ShouldSkipAnyLaunchConfig(node_id, counts_after, allowed) ==
    \/ keep_min_worker_of_node_type(node_id, counts_after)
    \/ ~AllowedGet(allowed, node_id)

\* The skip test with nodes_allowed_to_terminate left out.
ShouldSkipMinWorkersOnly(node_id, counts_after, allowed) ==
    /\ keep_min_worker_of_node_type(node_id, counts_after)
    /\ launch_config_ok(node_id)

\* Lines 183-186: the node is kept (continue) when it is within its type's
\* min_workers or needed for request_resources(), and its launch hash
\* matches.
ShouldSkip(node_id, counts_after, allowed) ==
    /\ \/ keep_min_worker_of_node_type(node_id, counts_after)
       \/ ~AllowedGet(allowed, node_id)
    /\ launch_config_ok(node_id)

\* Every node that is not kept is terminated.
ShouldTerminateUnlessKept(node_id, horizon) == TRUE

\* Lines 188-196: a node that is not kept is terminated when idle or
\* outdated.
ShouldTerminate(node_id, horizon) ==
    IF IsIdle(node_id, last_used_time_by_ip, horizon) THEN TRUE
    ELSE IF ~launch_config_ok(node_id) THEN TRUE
    ELSE FALSE

\* The walk over sorted_node_ids; the result is nodes_to_terminate.
RECURSIVE TerminateIdleLoop(_, _, _, _, _, _)
TerminateIdleLoop(sorted_ids, i, node_type_counts, allowed, horizon, acc) ==
    IF i > Len(sorted_ids) THEN acc
    ELSE LET node_id == sorted_ids[i]
             counts == CountsAfter(node_id, node_type_counts)
             terminate ==
                 /\ ~ShouldSkip(node_id, counts, allowed)
                 /\ ShouldTerminate(node_id, horizon)
         IN  TerminateIdleLoop(sorted_ids, i + 1, counts, allowed, horizon,
                               IF terminate THEN Append(acc, node_id) ELSE acc)

\* ------------------------------------- _update, lines 203-210: too many
\* The loop that never pops.
ExcessLoopNone(node_list, to_terminate) == to_terminate

RECURSIVE ExcessLoop(_, _)
ExcessLoop(node_list, to_terminate) ==
    IF Len(node_list) - Len(to_terminate) > config.max_workers
       /\ node_list # <<>>
    THEN ExcessLoop(SubSeq(node_list, 1, Len(node_list) - 1),
                    Append(to_terminate, node_list[Len(node_list)]))
    ELSE to_terminate

\* ------------------------------------------------------ the updaters map
\* self.updaters is a dict: iteration follows the order of insertion.
UpdaterKeys(u) == {u[i].node_id : i \in 1..Len(u)}

UpdaterState(u, node_id) ==
    IF node_id \in UpdaterKeys(u)
    THEN u[CHOOSE i \in 1..Len(u) : u[i].node_id = node_id].state
    ELSE "none"

\* self.updaters[node_id] = updater
UpdaterPut(u, node_id, state) ==
    IF node_id \in UpdaterKeys(u)
    THEN [i \in 1..Len(u) |->
            IF u[i].node_id = node_id THEN [u[i] EXCEPT !.state = state]
            ELSE u[i]]
    ELSE Append(u, [node_id |-> node_id, state |-> state])

\* ------------------------------------------------------------ can_update
\* can_update without the look-up in self.updaters.
can_update_unregistered(u, node_id) ==
    IF ~launch_config_ok(node_id) THEN FALSE
    ELSE IF num_failed_updates[node_id] > 0 THEN FALSE
    ELSE TRUE

\* can_update without the look-up in self.num_failed_updates.
can_update_retrying(u, node_id) ==
    IF node_id \in UpdaterKeys(u) THEN FALSE
    ELSE IF ~launch_config_ok(node_id) THEN FALSE
    ELSE TRUE

can_update(u, node_id) ==
    IF node_id \in UpdaterKeys(u) THEN FALSE
    ELSE IF ~launch_config_ok(node_id) THEN FALSE
    ELSE IF num_failed_updates[node_id] > 0 THEN FALSE
    ELSE TRUE

\* ------------------------------------------------------ files_up_to_date
None == <<"None">>

files_up_to_date(node_id) ==
    ~ \/ node_tags[node_id].runtime # runtime_hash
      \/ /\ file_mounts_contents_hash # None
         /\ file_mounts_contents_hash # node_tags[node_id].contents

\* --------------------------------------------------------- should_update
\* _get_node_type_specific_fields: the node type's own value of the field
\* when the type has one, else the value at the top of the config.
get_node_type_specific_fields(node_id, fields_key) ==
    LET fields == config[fields_key]
        node_type == node_tags[node_id].type
    IN  IF node_type # NoType
        THEN LET node_specific_config == config.available_node_types[node_type]
             IN  IF fields_key \in DOMAIN node_specific_config
                 THEN node_specific_config[fields_key]
                 ELSE fields
        ELSE fields

\* UpdateInstructions(node_id, init_commands, start_ray_commands, ...); the
\* node id is <<node_id>>, and <<>> where the code has None.
UpdateInstructions(node_id, init_commands, start_ray_commands) ==
    [node_id |-> node_id, init_commands |-> init_commands,
     start_ray_commands |-> start_ray_commands]

\* UpdateInstructions(None, None, None, None)
NoUpdate == UpdateInstructions(<<>>, None, None)

\* should_update with no_restart tested before restart_only.
should_update_no_restart_first(node_id) ==
    IF ~can_update(updaters, node_id) THEN NoUpdate
    ELSE IF /\ node_tags[node_id].status = STATUS_UP_TO_DATE
            /\ files_up_to_date(node_id)
         THEN NoUpdate
         ELSE LET successful_updated == num_successful_updates[node_id] > 0
              IN  IF successful_updated /\ config.no_restart
                  THEN UpdateInstructions(<<node_id>>,
                           get_node_type_specific_fields(
                               node_id, "worker_setup_commands"),
                           <<>>)
                  ELSE IF successful_updated /\ config.restart_only
                  THEN UpdateInstructions(<<node_id>>, <<>>,
                           config.worker_start_ray_commands)
                  ELSE UpdateInstructions(<<node_id>>,
                           get_node_type_specific_fields(
                               node_id, "worker_setup_commands"),
                           config.worker_start_ray_commands)

should_update(node_id) ==
    IF ~can_update(updaters, node_id) THEN NoUpdate
    ELSE IF /\ node_tags[node_id].status = STATUS_UP_TO_DATE
            /\ files_up_to_date(node_id)
         THEN NoUpdate
         ELSE LET successful_updated == num_successful_updates[node_id] > 0
              IN  IF successful_updated /\ config.restart_only
                  THEN UpdateInstructions(<<node_id>>, <<>>,
                           config.worker_start_ray_commands)
                  ELSE IF successful_updated /\ config.no_restart
                  THEN UpdateInstructions(<<node_id>>,
                           get_node_type_specific_fields(
                               node_id, "worker_setup_commands"),
                           <<>>)
                  ELSE UpdateInstructions(<<node_id>>,
                           get_node_type_specific_fields(
                               node_id, "worker_setup_commands"),
                           config.worker_start_ray_commands)

\* ----------------------------------------------------- recover_if_needed
\* last_heartbeat_time_by_ip after the call.
HeartbeatAfterProbe(u, hb, node_id, t) ==
    IF ~can_update(u, node_id) THEN hb
    ELSE IF internal_ip(node_id) \notin DOMAIN hb
         THEN [ip \in DOMAIN hb \cup {internal_ip(node_id)} |->
                  IF ip = internal_ip(node_id) THEN t ELSE hb[ip]]
         ELSE hb

\* recover_if_needed that also returns at exactly the timeout.
recover_if_needed_after_timeout(u, hb, node_id, t) ==
    IF ~can_update(u, node_id) THEN FALSE
    ELSE LET last_heartbeat_time ==
                 HeartbeatAfterProbe(u, hb, node_id, t)[internal_ip(node_id)]
             delta == t - last_heartbeat_time
         IN  IF delta <= HeartbeatTimeoutS THEN FALSE ELSE TRUE

\* TRUE when the call constructs, starts and registers a recovery updater.
recover_if_needed(u, hb, node_id, t) ==
    IF ~can_update(u, node_id) THEN FALSE
    ELSE LET last_heartbeat_time ==
                 HeartbeatAfterProbe(u, hb, node_id, t)[internal_ip(node_id)]
             delta == t - last_heartbeat_time
         IN  IF delta < HeartbeatTimeoutS THEN FALSE ELSE TRUE

\* The loop of lines 270-271 over the nodes from index i on: the updaters
\* map, the heartbeat map and the nodes a recovery updater was started for.
RECURSIVE RecoverLoop(_, _, _, _, _, _)
RecoverLoop(node_list, i, u, hb, started, t) ==
    IF i > Len(node_list)
    THEN [updaters |-> u, heartbeat |-> hb, started |-> started]
    ELSE LET node_id == node_list[i]
             recover == recover_if_needed(u, hb, node_id, t)
         IN  RecoverLoop(node_list, i + 1,
                         IF recover THEN UpdaterPut(u, node_id, "alive") ELSE u,
                         HeartbeatAfterProbe(u, hb, node_id, t),
                         IF recover THEN started \cup {node_id} ELSE started,
                         t)

\* ------------------------------------------------------- launch_new_node
\* The batch sizes put on the queue for a request of count nodes.
RECURSIVE LaunchChunks(_)
LaunchChunks(count) ==
    IF count > 0
    THEN <<Min2(count, MaxLaunchBatch)>> \o LaunchChunks(count - MaxLaunchBatch)
    ELSE <<>>

LaunchRequests(count, node_type) ==
    LET chunks == LaunchChunks(count)
    IN  [i \in 1..Len(chunks) |->
            [launch |-> hash_launch_conf(LaunchConfigOf(config, node_type),
                                         config.auth),
             count |-> chunks[i],
             node_type |-> node_type]]

\* The launch that counts one pending node per call.
PendingAfterLaunchByOne(pending, count, node_type) ==
    [pending EXCEPT ![node_type] = @ + 1]

\* pending_launches after launch_new_node(count, node_type).
PendingAfterLaunch(pending, count, node_type) ==
    [pending EXCEPT ![node_type] = @ + count]

\* ----------------------------------------------------------------- reset
\* hash_runtime_conf: the runtime digest, and the digest of the mounted
\* files' contents when asked for it.
hash_runtime_conf(new_config, generate_file_mounts_contents_hash) ==
    [runtime_hash |-> <<"runtime", new_config.runtime>>,
     file_mounts_contents_hash |->
        IF generate_file_mounts_contents_hash
        THEN <<"contents", new_config.runtime>>
        ELSE None]

\* What ResourceDemandScheduler(...) and reset_config(...) are given.
SchedulerConfig(node_types, max_workers) ==
    [node_types |-> node_types, max_workers |-> max_workers]

\* reset(errors_fatal=False): the exception of a file that cannot be read or
\* of a key the new config lacks ends the method where it is raised and is
\* swallowed; the assignments made before it stay.
reset ==
    LET sync_continuously == config.file_mounts_sync_continuously
    IN  IF ~config_file.readable
        THEN UNCHANGED <<config, runtime_hash, file_mounts_contents_hash,
                         available_node_types, scheduler_config>>
        ELSE LET new_config == config_file.yaml
             IN  IF "runtime" \notin DOMAIN new_config
                 THEN UNCHANGED <<config, runtime_hash,
                                  file_mounts_contents_hash,
                                  available_node_types, scheduler_config>>
                 ELSE LET hashes ==
                              hash_runtime_conf(new_config, sync_continuously)
                      IN  /\ config' = new_config
                          /\ runtime_hash' = hashes.runtime_hash
                          /\ file_mounts_contents_hash' =
                                 hashes.file_mounts_contents_hash
                          /\ IF "available_node_types" \notin DOMAIN new_config
                             THEN UNCHANGED <<available_node_types,
                                              scheduler_config>>
                             ELSE /\ available_node_types' =
                                         new_config.available_node_types
                                  /\ IF "max_workers" \notin DOMAIN new_config
                                     THEN UNCHANGED scheduler_config
                                     ELSE scheduler_config' =
                                              SchedulerConfig(
                                                  available_node_types',
                                                  new_config.max_workers)

\* ---------------------------------------------------------- load metrics
Restrict(f, S) == [x \in DOMAIN f \cap S |-> f[x]]

\* prune_active_ips(ips): forget the IPs that are neither a listed worker's
\* nor the head's.
prune_active_ips(mapping, node_list) ==
    Restrict(mapping, {internal_ip(n) : n \in Range(node_list)} \cup {HeadIp})

\* mark_active(ip): the IP's last heartbeat is the current time.
mark_active(hb, ip, t) ==
    [x \in DOMAIN hb \cup {ip} |-> IF x = ip THEN t ELSE hb[x]]

\* ------------------------------------------------------------- provider
\* terminate_nodes(batch), then workers().
terminate_nodes(listing, batch) == Without(listing, Range(batch))

NoTags == [type |-> NoType, launch |-> None, status |-> "nonexistent",
           runtime |-> None, contents |-> None]

UsedIds == {n \in NodeIds : node_tags[n] # NoTags}

EmptyLocals ==
    /\ now' = 0
    /\ nodes' = <<>>
    /\ sorted_node_ids' = <<>>
    /\ nodes_to_terminate' = <<>>
    /\ to_launch' = [t \in NodeTypes |-> 0]
    /\ T' = {}

\* ------------------------------------------------ update(), lines 124-155
\* reset, then _update up to the snapshot: the interval gate, the time of
\* this tick and the first listing of the workers.
\* The gate left open.
ThrottledNever == FALSE

\* The gate with the comparison off by one.
ThrottledInclusive == clock - last_update_time <= UpdateIntervalS

\* Line 152: "if now - self.last_update_time < self.update_interval_s".
Throttled == clock - last_update_time < UpdateIntervalS

\* The except clause of reset (lines 441-446) is entered: the file cannot be
\* read or lacks a key that reset reads.
RefreshFails ==
    \/ ~config_file.readable
    \/ {"runtime", "available_node_types", "max_workers"}
           \ DOMAIN config_file.yaml # {}

\* update() that counts a failed refresh like a failure of the tick body.
UpdateCallCountingRefresh ==
    /\ pc = "idle"
    /\ reset
    /\ num_failures' = IF RefreshFails THEN num_failures + 1
                        ELSE num_failures
    /\ IF Throttled
       THEN /\ outcome' = "throttled"
            /\ UNCHANGED <<last_update_time, metricVars, pc, localVars>>
       ELSE /\ last_update_time' = clock
            /\ now' = clock
            /\ nodes' = provider_nodes
            /\ last_used_time_by_ip' =
                   prune_active_ips(last_used_time_by_ip, provider_nodes)
            /\ last_heartbeat_time_by_ip' =
                   prune_active_ips(last_heartbeat_time_by_ip, provider_nodes)
            /\ quiet' = (launch_queue = <<>> /\ launching = <<>>)
            /\ pc' = "terminate_idle"
            /\ outcome' = "running"
            /\ UNCHANGED <<sorted_node_ids, nodes_to_terminate, to_launch, T>>
    /\ UNCHANGED <<providerVars, clock, config_file, updaterVars,
                   resource_demand_vector, launchVars, exc,
                   failed_in_a_row, last_request>>

UpdateCall ==
    /\ pc = "idle"
    /\ reset
    /\ IF Throttled
       THEN /\ outcome' = "throttled"
            /\ UNCHANGED <<last_update_time, metricVars, pc, localVars>>
       ELSE /\ last_update_time' = clock
            /\ now' = clock
            /\ nodes' = provider_nodes
            /\ last_used_time_by_ip' =
                   prune_active_ips(last_used_time_by_ip, provider_nodes)
            /\ last_heartbeat_time_by_ip' =
                   prune_active_ips(last_heartbeat_time_by_ip, provider_nodes)
            /\ quiet' = (launch_queue = <<>> /\ launching = <<>>)
            /\ pc' = "terminate_idle"
            /\ outcome' = "running"
            /\ UNCHANGED <<sorted_node_ids, nodes_to_terminate, to_launch, T>>
    /\ UNCHANGED <<providerVars, clock, config_file, updaterVars, num_failures,
                   resource_demand_vector, launchVars, exc,
                   failed_in_a_row, last_request>>

\* ------------------------------------------------------- lines 163-201
\* Terminate any idle or out of date nodes.
StepTerminateIdle ==
    /\ pc = "terminate_idle"
    /\ ~SortRaises(last_used_time_by_ip)
    /\ LET horizon == now - (60 * config.idle_timeout_minutes)
           sorted == sort_based_on_last_used(nodes, last_used_time_by_ip)
           nodes_allowed_to_terminate ==
               IF resource_demand_vector # <<>>
               THEN get_nodes_allowed_to_terminate(sorted)
               ELSE <<>>
           batch == TerminateIdleLoop(sorted, 1, [t \in NodeTypes |-> 0],
                                      nodes_allowed_to_terminate, horizon,
                                      <<>>)
       IN  /\ sorted_node_ids' = sorted
           /\ nodes_to_terminate' = batch
           /\ IF batch # <<>>
              THEN /\ provider_nodes' = terminate_nodes(provider_nodes, batch)
                   /\ nodes' = provider_nodes'
              ELSE UNCHANGED <<provider_nodes, nodes>>
    /\ pc' = "terminate_excess"
    /\ UNCHANGED <<node_tags, metricVars, clock, configVars, updaterVars,
                   num_failures, last_update_time, resource_demand_vector,
                   launchVars, now, to_launch, T, outcome, quiet, exc,
                   failed_in_a_row, last_request>>

\* min() of an empty last_used raises inside _sort_based_on_last_used.
StepSortRaises ==
    /\ pc = "terminate_idle"
    /\ SortRaises(last_used_time_by_ip)
    /\ pc' = "except"
    /\ exc' = "ValueError"
    /\ UNCHANGED <<providerVars, metricVars, clock, configVars, updaterVars,
                   num_failures, last_update_time, resource_demand_vector,
                   launchVars, localVars, outcome,
                   failed_in_a_row, last_request>>

\* ------------------------------------------------------- lines 203-216
\* Terminate nodes if there are too many.
StepTerminateExcess ==
    /\ pc = "terminate_excess"
    /\ "max_workers" \in DOMAIN config
    /\ LET batch == ExcessLoop(nodes, <<>>)
       IN  /\ nodes_to_terminate' = batch
           /\ IF batch # <<>>
              THEN /\ provider_nodes' = terminate_nodes(provider_nodes, batch)
                   /\ nodes' = provider_nodes'
              ELSE UNCHANGED <<provider_nodes, nodes>>
    /\ pc' = "launch"
    /\ UNCHANGED <<node_tags, metricVars, clock, configVars, updaterVars,
                   num_failures, last_update_time, resource_demand_vector,
                   launchVars, now, sorted_node_ids, to_launch, T, outcome,
                   quiet, exc,
                   failed_in_a_row, last_request>>

\* self.config["max_workers"] at line 206 raises KeyError when a refresh has
\* left a config without the key.
StepExcessRaises ==
    /\ pc = "terminate_excess"
    /\ "max_workers" \notin DOMAIN config
    /\ pc' = "except"
    /\ exc' = "KeyError"
    /\ UNCHANGED <<providerVars, metricVars, clock, configVars, updaterVars,
                   num_failures, last_update_time, resource_demand_vector,
                   launchVars, localVars, outcome,
                   failed_in_a_row, last_request>>

\* ------------------------------------------------------- lines 218-229
\* What get_nodes_to_launch may answer: a count per node type, within the
\* node ids the provider has left.
PendingTotal == pending_launches["A"] + pending_launches["B"]

FreeIds == MaxNodes - Cardinality(UsedIds) - PendingTotal

\* The node types the scheduler asks for.
LaunchTypes == {"A"}

LaunchAnswers ==
    {a \in [NodeTypes -> 0..MaxNodes] :
        /\ a["A"] + a["B"] <= FreeIds
        /\ \A t \in NodeTypes \ LaunchTypes : a[t] = 0}

\* Step 4 for one answer of the scheduler.
LaunchAnswer(answer) ==
    /\ pc = "launch"
    /\ to_launch' = answer
    /\ pending_launches' =
           PendingAfterLaunch(
               PendingAfterLaunch(pending_launches, answer["A"], "A"),
               answer["B"], "B")
    /\ launch_queue' = launch_queue \o LaunchRequests(answer["A"], "A")
                                    \o LaunchRequests(answer["B"], "B")
    /\ quiet' = (quiet /\ answer["A"] + answer["B"] = 0)
    /\ nodes' = provider_nodes
    /\ pc' = "reap"
    /\ UNCHANGED <<providerVars, metricVars, clock, configVars, updaterVars,
                   num_failures, last_update_time, resource_demand_vector,
                   launching, now, sorted_node_ids, nodes_to_terminate, T,
                   outcome, exc,
                   failed_in_a_row, last_request>>

StepLaunch == \E answer \in LaunchAnswers : LaunchAnswer(answer)

\* ------------------------------------------------------- lines 231-247
\* Process any completed updates.
Completed(u) == SelectSeq(u, LAMBDA e : e.state # "alive")

StepReap ==
    /\ pc = "reap"
    /\ LET completed == Completed(updaters)
           done(code) == {completed[i].node_id :
                             i \in {j \in 1..Len(completed) :
                                        completed[j].state = code}}
       IN  IF completed # <<>>
           THEN /\ num_successful_updates' =
                       [n \in NodeIds |->
                           IF n \in done("exit0")
                           THEN num_successful_updates[n] + 1
                           ELSE num_successful_updates[n]]
                /\ num_failed_updates' =
                       [n \in NodeIds |->
                           IF n \in done("exit1")
                           THEN num_failed_updates[n] + 1
                           ELSE num_failed_updates[n]]
                /\ updaters' = SelectSeq(updaters, LAMBDA e : e.state = "alive")
                \* node_id is what the loop over completed left in it
                /\ last_heartbeat_time_by_ip' =
                       mark_active(last_heartbeat_time_by_ip,
                                   internal_ip(completed[Len(completed)].node_id),
                                   clock)
                /\ nodes' = provider_nodes
           ELSE UNCHANGED <<num_successful_updates, num_failed_updates,
                            updaters, last_heartbeat_time_by_ip, nodes>>
    /\ pc' = "dispatch"
    /\ UNCHANGED <<providerVars, last_used_time_by_ip, clock, configVars,
                   updater_threads, num_failures, last_update_time,
                   resource_demand_vector, launchVars, now, sorted_node_ids,
                   nodes_to_terminate, to_launch, T, outcome, quiet, exc,
                   failed_in_a_row, last_request>>

\* ------------------------------------------------------- lines 249-267
\* One thread per node should_update gives an instruction for; T holds the
\* arguments of the threads that have not run yet.
StepDispatch ==
    /\ pc = "dispatch"
    /\ T' = {should_update(node_id) : node_id \in Range(nodes)} \ {NoUpdate}
    /\ pc' = "spawn"
    /\ UNCHANGED <<providerVars, metricVars, clock, configVars, updaterVars,
                   num_failures, last_update_time, resource_demand_vector,
                   launchVars, now, nodes, sorted_node_ids,
                   nodes_to_terminate, to_launch, outcome, quiet, exc,
                   failed_in_a_row, last_request>>

\* spawn_updater, run by the thread started for node_id.
spawn_updater(node_id) ==
    /\ updaters' = UpdaterPut(updaters, node_id, "alive")
    /\ updater_threads' = [updater_threads EXCEPT ![node_id] = @ + 1]

SpawnUpdater(node_id) ==
    /\ pc = "spawn"
    /\ \E args \in T :
          /\ args.node_id = <<node_id>>
          /\ T' = T \ {args}
    /\ spawn_updater(node_id)
    /\ UNCHANGED <<providerVars, metricVars, clock, configVars,
                   num_failed_updates, num_successful_updates, num_failures,
                   last_update_time, resource_demand_vector, launchVars, pc,
                   now, nodes, sorted_node_ids, nodes_to_terminate, to_launch,
                   outcome, quiet, exc,
                   failed_in_a_row, last_request>>

\* ------------------------------------------------------- lines 269-271
\* The recovery step of a tick that also clears num_failures on return.
StepRecoverResetsFailures ==
    /\ pc = "spawn"
    /\ T = {}
    /\ LET r == RecoverLoop(nodes, 1, updaters, last_heartbeat_time_by_ip,
                            {}, now)
       IN  /\ updaters' = r.updaters
           /\ last_heartbeat_time_by_ip' = r.heartbeat
           /\ updater_threads' =
                  [n \in NodeIds |->
                      IF n \in r.started THEN updater_threads[n] + 1
                      ELSE updater_threads[n]]
    /\ pc' = "idle"
    /\ outcome' = "returned"
    /\ failed_in_a_row' = 0
    /\ num_failures' = 0
    /\ EmptyLocals
    /\ UNCHANGED <<providerVars, last_used_time_by_ip, clock, configVars,
                   num_failed_updates, num_successful_updates,
                   last_update_time, resource_demand_vector, launchVars,
                   quiet, exc, last_request>>

\* The recovery step that does not wait for the threads it started.
StepRecoverWithoutJoin ==
    /\ pc = "spawn"
    /\ LET r == RecoverLoop(nodes, 1, updaters, last_heartbeat_time_by_ip,
                            {}, now)
       IN  /\ updaters' = r.updaters
           /\ last_heartbeat_time_by_ip' = r.heartbeat
           /\ updater_threads' =
                  [n \in NodeIds |->
                      IF n \in r.started THEN updater_threads[n] + 1
                      ELSE updater_threads[n]]
    /\ pc' = "idle"
    /\ outcome' = "returned"
    /\ failed_in_a_row' = 0
    /\ EmptyLocals
    /\ UNCHANGED <<providerVars, last_used_time_by_ip, clock, configVars,
                   num_failed_updates, num_successful_updates, num_failures,
                   last_update_time, resource_demand_vector, launchVars,
                   quiet, exc, last_request>>

\* All threads joined: attempt to recover unhealthy nodes, then return.
StepRecover ==
    /\ pc = "spawn"
    /\ T = {}
    /\ LET r == RecoverLoop(nodes, 1, updaters, last_heartbeat_time_by_ip,
                            {}, now)
       IN  /\ updaters' = r.updaters
           /\ last_heartbeat_time_by_ip' = r.heartbeat
           /\ updater_threads' =
                  [n \in NodeIds |->
                      IF n \in r.started THEN updater_threads[n] + 1
                      ELSE updater_threads[n]]
    /\ pc' = "idle"
    /\ outcome' = "returned"
    /\ failed_in_a_row' = 0
    /\ EmptyLocals
    /\ UNCHANGED <<providerVars, last_used_time_by_ip, clock, configVars,
                   num_failed_updates, num_successful_updates, num_failures,
                   last_update_time, resource_demand_vector, launchVars,
                   quiet, exc, last_request>>

\* ------------------------------------------------------- lines 128-144
\* A provider call of the tick body raises.
ProviderError(e) ==
    /\ pc \in {"terminate_idle", "reap"}
    /\ pc' = "except"
    /\ exc' = e
    /\ UNCHANGED <<providerVars, metricVars, clock, configVars, updaterVars,
                   num_failures, last_update_time, resource_demand_vector,
                   launchVars, localVars, outcome,
                   failed_in_a_row, last_request>>

\* num_failures after the except clause has seen exception e.
FailuresAfter(e) ==
    LET is_k8s_connection_error ==
            /\ config.provider.type = "kubernetes"
            /\ e = "MaxRetryError"
    IN  IF ~is_k8s_connection_error THEN num_failures + 1 ELSE num_failures

\* The abort test reached one failure early.
TooManyErrorsAtLimit(failures) == failures >= MaxFailures

\* "Too many errors, abort."
TooManyErrors(failures) == failures > MaxFailures

ExceptHandler ==
    /\ pc = "except"
    /\ num_failures' = FailuresAfter(exc)
    /\ IF TooManyErrors(num_failures')
       THEN /\ pc' = "aborted"
            /\ outcome' = "raised"
       ELSE /\ pc' = "idle"
            /\ outcome' = "swallowed"
    /\ exc' = "none"
    /\ failed_in_a_row' = failed_in_a_row + 1
    /\ EmptyLocals
    /\ UNCHANGED <<providerVars, metricVars, clock, configVars, updaterVars,
                   last_update_time, resource_demand_vector, launchVars,
                   quiet, last_request>>

\* ============================================================ environment
\* Time passes between two calls of update().
Advance ==
    /\ pc = "idle"
    /\ clock < StartTime + MaxElapsed
    /\ clock' = clock + 1
    /\ UNCHANGED <<providerVars, metricVars, configVars, updaterVars,
                   num_failures, last_update_time, resource_demand_vector,
                   launchVars, pc, localVars, outcome, exc,
                   failed_in_a_row, last_request>>

\* A NodeUpdaterThread runs to completion: exit code 0 tags the node up to
\* date with the hashes it was given, any other exit code tags it failed.
UpdaterExit(node_id, code) ==
    /\ UpdaterState(updaters, node_id) = "alive"
    /\ updaters' = UpdaterPut(updaters, node_id, code)
    /\ updater_threads' = [updater_threads EXCEPT ![node_id] = @ - 1]
    /\ node_tags' =
           [node_tags EXCEPT ![node_id] =
               IF code = "exit0"
               THEN [@ EXCEPT !.status = STATUS_UP_TO_DATE,
                              !.runtime = runtime_hash,
                              !.contents = file_mounts_contents_hash]
               ELSE [@ EXCEPT !.status = "update-failed"]]
    /\ UNCHANGED <<provider_nodes, metricVars, clock, configVars,
                   num_failed_updates, num_successful_updates, num_failures,
                   last_update_time, resource_demand_vector, launchVars, pc,
                   localVars, outcome, exc,
                   failed_in_a_row, last_request>>

\* A NodeLauncher thread takes the next request off the queue.
LauncherTake ==
    /\ launch_queue # <<>>
    /\ Len(launching) < MaxBatches
    /\ launching' = Append(launching, Head(launch_queue))
    /\ launch_queue' = Tail(launch_queue)
    /\ UNCHANGED <<providerVars, metricVars, clock, configVars, updaterVars,
                   num_failures, last_update_time, resource_demand_vector,
                   pending_launches, pc, localVars, outcome, exc,
                   failed_in_a_row, last_request>>

\* The count smallest node ids the provider has not handed out yet.
RECURSIVE FreshIds(_, _)
FreshIds(used, count) ==
    IF count = 0 THEN <<>>
    ELSE LET n == MinOf(NodeIds \ used)
         IN  <<n>> \o FreshIds(used \cup {n}, count - 1)

\* The thread's create_node call ends: on success the provider lists the
\* new nodes; either way the pending count goes down by the batch size.
LauncherDone(ok) ==
    /\ launching # <<>>
    /\ LET request == Head(launching)
           created == FreshIds(UsedIds, request.count)
       IN  /\ launching' = Tail(launching)
           /\ pending_launches' =
                  [pending_launches EXCEPT ![request.node_type] =
                                               @ - request.count]
           /\ IF ok
              THEN /\ provider_nodes' = provider_nodes \o created
                   /\ node_tags' =
                          [n \in NodeIds |->
                              IF n \in Range(created)
                              THEN [type |-> request.node_type,
                                    launch |-> request.launch,
                                    status |-> "uninitialized",
                                    runtime |-> None,
                                    contents |-> None]
                              ELSE node_tags[n]]
              ELSE UNCHANGED providerVars
    /\ UNCHANGED <<metricVars, clock, configVars, updaterVars, num_failures,
                   last_update_time, resource_demand_vector, launch_queue,
                   pc, localVars, outcome, exc,
                   failed_in_a_row, last_request>>

\* ------------------------------------------------------- request_resources
DemandVectors == {<<>>, <<1>>, <<2>>, <<1, 1>>}

\* A Python value passed as resources: its type and, for a list, its items.
PyList(items) == [type |-> "list", items |-> items]

NotLists == {[type |-> "dict", items |-> <<1>>],
             [type |-> "NoneType", items |-> <<>>]}

\* request_resources that takes whatever it is given.
request_resources_unchecked(resources) ==
    /\ pc = "idle"
    /\ resource_demand_vector' = resources.items
    /\ last_request' = [resources |-> resources, error |-> "none"]
    /\ UNCHANGED <<providerVars, metricVars, clock, configVars, updaterVars,
                   num_failures, last_update_time, launchVars, pc, localVars,
                   outcome, exc, failed_in_a_row>>

request_resources(resources) ==
    /\ pc = "idle"
    /\ IF resources.type = "list"
       THEN /\ resource_demand_vector' = resources.items
            /\ last_request' = [resources |-> resources, error |-> "none"]
       ELSE /\ last_request' = [resources |-> resources,
                                error |-> "AssertionError"]
            /\ UNCHANGED resource_demand_vector
    /\ UNCHANGED <<providerVars, metricVars, clock, configVars, updaterVars,
                   num_failures, last_update_time, launchVars, pc, localVars,
                   outcome, exc,
                   failed_in_a_row>>

\* ================================================================== Init
\* The cluster configuration read from the YAML file.
ClusterConfig(max_workers, provider_type, min_a, max_a, min_b) ==
    [max_workers |-> max_workers,
     idle_timeout_minutes |-> IdleTimeoutMinutes,
     worker_nodes |-> "image-2",
     auth |-> "ssh-key",
     provider |-> [type |-> provider_type],
     runtime |-> "commands-1",
     file_mounts_sync_continuously |-> FALSE,
     restart_only |-> FALSE,
     no_restart |-> FALSE,
     worker_setup_commands |-> <<"setup">>,
     worker_start_ray_commands |-> <<"start">>,
     available_node_types |->
         [t \in NodeTypes |->
             IF t = "A"
             THEN [min_workers |-> min_a, max_workers |-> max_a,
                   resources |-> 1, node_config |-> "small",
                   worker_setup_commands |-> <<"setup-small">>]
             ELSE [min_workers |-> min_b, max_workers |-> MaxNodes,
                   resources |-> 2, node_config |-> "large"]]]

\* The RAY_LAUNCH_CONFIG tag of a node launched under cfg, and of one
\* launched before worker_nodes was last edited.
CurrentLaunchTag(cfg, node_type) ==
    hash_launch_conf(LaunchConfigOf(cfg, node_type), cfg.auth)

StaleLaunchTag(cfg, node_type) ==
    hash_launch_conf(LaunchConfigOf([cfg EXCEPT !.worker_nodes = "image-1"],
                                    node_type), cfg.auth)

\* A worker that is set up and up to date with cfg's runtime config.
SetUpTags(cfg, node_type, launch) ==
    [type |-> node_type, launch |-> launch, status |-> STATUS_UP_TO_DATE,
     runtime |-> hash_runtime_conf(cfg, FALSE).runtime_hash,
     contents |-> None]

\* A worker the provider has created and no updater has touched.
FreshTags(cfg, node_type, launch) ==
    [type |-> node_type, launch |-> launch, status |-> "uninitialized",
     runtime |-> None, contents |-> None]

\* What the load metrics hold for one node: <<t>>, or nothing.
NoReport == <<>>

\* A mapping by IP from a choice per node (NoReport: the IP is unknown),
\* with the head's entry.
ByIp(k, choice, head_time) ==
    [ip \in {internal_ip(n) : n \in {m \in 1..k : choice[m] # NoReport}}
            \cup {HeadIp} |->
        IF ip = HeadIp THEN head_time
        ELSE choice[CHOOSE n \in 1..k : internal_ip(n) = ip][1]]

\* The fields the constructor sets, around a given provider and load
\* metrics.
Constructed(cfg, k, tags, last_used, heartbeat, demand) ==
    /\ provider_nodes = [n \in 1..k |-> n]
    /\ node_tags = [n \in NodeIds |-> IF n <= k THEN tags[n] ELSE NoTags]
    /\ last_used_time_by_ip = last_used
    /\ last_heartbeat_time_by_ip = heartbeat
    /\ clock = StartTime
    /\ config_file = [readable |-> TRUE, yaml |-> cfg]
    /\ config = cfg
    /\ runtime_hash = hash_runtime_conf(cfg, FALSE).runtime_hash
    /\ file_mounts_contents_hash =
           hash_runtime_conf(cfg, FALSE).file_mounts_contents_hash
    /\ available_node_types = cfg.available_node_types
    /\ scheduler_config =
           SchedulerConfig(cfg.available_node_types, cfg.max_workers)
    /\ updaters = <<>>
    /\ num_failed_updates = [n \in NodeIds |-> 0]
    /\ num_successful_updates = [n \in NodeIds |-> 0]
    /\ num_failures = 0
    /\ last_update_time = 0
    /\ resource_demand_vector = demand
    /\ pending_launches = [t \in NodeTypes |-> 0]
    /\ launch_queue = <<>>
    /\ updater_threads = [n \in NodeIds |-> 0]
    /\ launching = <<>>
    /\ pc = "idle"
    /\ now = 0
    /\ nodes = <<>>
    /\ sorted_node_ids = <<>>
    /\ nodes_to_terminate = <<>>
    /\ to_launch = [t \in NodeTypes |-> 0]
    /\ T = {}
    /\ outcome = "none"
    /\ quiet = TRUE
    /\ failed_in_a_row = 0
    \* self.resource_demand_vector = [], as after request_resources([])
    /\ last_request = [resources |-> PyList(demand), error |-> "none"]
    /\ exc = "none"

\* ---- the whole loop: a cluster the autoscaler is started on
LoopConfigs ==
    {ClusterConfig(MaxNodes, "aws", 1, MaxNodes, 0),
     ClusterConfig(MaxNodes, "kubernetes", 1, MaxNodes, 0),
     ClusterConfig(0, "aws", 1, MaxNodes, 0)}

LoopTags(cfg) ==
    {SetUpTags(cfg, "A", CurrentLaunchTag(cfg, "A")),
     SetUpTags(cfg, "A", StaleLaunchTag(cfg, "A")),
     FreshTags(cfg, "A", CurrentLaunchTag(cfg, "A"))}

Init ==
    \E cfg \in LoopConfigs, k \in 0..MaxNodes :
        \E tags \in [1..k -> LoopTags(cfg)],
           known \in BOOLEAN,
           beat \in {[n \in 1..k |-> b] :
                        b \in {NoReport, <<StartTime - HeartbeatTimeoutS>>}} :
            Constructed(cfg, k, tags,
                        IF known
                        THEN ByIp(k, [n \in 1..k |-> <<StartTime - 60>>],
                                  StartTime)
                        ELSE <<>>,
                        IF known THEN ByIp(k, beat, StartTime) ELSE <<>>,
                        <<>>)

TickNext ==
    \/ UpdateCall
    \/ StepTerminateIdle
    \/ StepSortRaises
    \/ StepTerminateExcess
    \/ StepLaunch
    \/ StepReap
    \/ StepDispatch
    \/ \E node_id \in NodeIds : SpawnUpdater(node_id)
    \/ StepRecover
    \/ \E e \in {"MaxRetryError", "ProviderError"} : ProviderError(e)
    \/ ExceptHandler

Next ==
    \/ TickNext
    \/ Advance
    \/ \E node_id \in NodeIds, code \in {"exit0", "exit1"} :
          UpdaterExit(node_id, code)
    \/ LauncherTake
    \/ \E ok \in BOOLEAN : LauncherDone(ok)

Spec == Init /\ [][Next]_vars

\* ---- the termination steps of one tick, on any fleet
TerminateConfigs ==
    {ClusterConfig(mw, "aws", a[1], a[2], 1) :
        mw \in 0..MaxNodes, a \in {<<0, MaxNodes>>, <<1, MaxNodes>>, <<2, 1>>}}

TerminateTags(cfg) ==
    {SetUpTags(cfg, t, CurrentLaunchTag(cfg, t)) : t \in NodeTypes \cup {NoType}}
    \cup {SetUpTags(cfg, t, StaleLaunchTag(cfg, t)) :
             t \in NodeTypes \cup {NoType}}

\* Last used 62 or 61 seconds ago (idle when the timeout is 60 seconds),
\* exactly 60 seconds ago, or not known to the load metrics.
LastUsedChoices ==
    {NoReport, <<StartTime - 62>>, <<StartTime - 61>>, <<StartTime - 60>>}

InitTerminate ==
    \E cfg \in TerminateConfigs, k \in 0..MaxNodes :
        \E tags \in [1..k -> TerminateTags(cfg)] :
            \/ \E used \in [1..k -> LastUsedChoices] :
                  Constructed(cfg, k, tags, ByIp(k, used, StartTime),
                              <<>>, <<>>)
            \/ Constructed(cfg, k, tags, <<>>, <<>>, <<>>)

NextTerminate ==
    \/ \E resources \in DemandVectors : request_resources(PyList(resources))
    \/ UpdateCall
    \/ StepTerminateIdle
    \/ StepSortRaises
    \/ StepTerminateExcess
    \/ ExceptHandler

SpecTerminate == InitTerminate /\ [][NextTerminate]_vars

\* ------------------------------------------------- the min_workers floor
\* min(min_workers, max_workers) of node type t.
Floor(t) ==
    Min2(config.available_node_types[t].min_workers,
         config.available_node_types[t].max_workers)

ListedOfType(t) == {n \in Range(provider_nodes) : node_tags[n].type = t}

\* A scheduler that asks for the min_workers shortfall of every type, net of
\* the launches already pending.
Shortfall ==
    [t \in NodeTypes |->
        LET missing == Floor(t) - Cardinality(ListedOfType(t))
                                - pending_launches[t]
        IN  IF missing > 0 THEN missing ELSE 0]

StepLaunchShortfall == LaunchAnswer(Shortfall)

\* Floors that fit the node ids the provider has, next to k workers.
FloorConfigs(k) ==
    {ClusterConfig(MaxNodes, "aws", c[1], c[2], c[3]) :
        c \in {d \in (1..MaxNodes) \X (1..MaxNodes) \X (0..1) :
                  k + Min2(d[1], d[2]) + d[3] <= MaxNodes}}

\* A steady cluster: workers of type A, set up or fresh, with a current or a
\* stale launch hash; load metrics that know every IP, or none yet.
InitFloor ==
    \E k \in 0..(MaxNodes - 1) :
        \E cfg \in FloorConfigs(k) :
            \E tags \in [1..k -> LoopTags(cfg)], known \in BOOLEAN :
                Constructed(cfg, k, tags,
                            IF known
                            THEN ByIp(k, [n \in 1..k |-> <<StartTime - 60>>],
                                      StartTime)
                            ELSE <<>>,
                            IF known
                            THEN ByIp(k, [n \in 1..k |-> <<StartTime>>],
                                      StartTime)
                            ELSE <<>>,
                            <<>>)

TickFloor ==
    \/ UpdateCall
    \/ StepTerminateIdle
    \/ StepSortRaises
    \/ StepTerminateExcess
    \/ StepLaunchShortfall
    \/ StepReap
    \/ StepDispatch
    \/ \E node_id \in NodeIds : SpawnUpdater(node_id)
    \/ StepRecover
    \/ ExceptHandler

LauncherCreates == LauncherDone(TRUE)

UpdaterSucceeds == \E node_id \in NodeIds : UpdaterExit(node_id, "exit0")

NextFloor ==
    \/ TickFloor
    \/ Advance
    \/ UpdaterSucceeds
    \/ LauncherTake
    \/ LauncherCreates

\* The monitor keeps calling update(), time passes, and the launcher and
\* updater threads are scheduled.
SpecFloor ==
    /\ InitFloor
    /\ [][NextFloor]_vars
    /\ WF_vars(TickFloor)
    /\ WF_vars(Advance)
    /\ WF_vars(UpdaterSucceeds)
    /\ WF_vars(LauncherTake)
    /\ WF_vars(LauncherCreates)

\* ----------------------------------------- request_resources between ticks
\* Workers of type A with a current launch hash and no min_workers; the
\* monitor calls request_resources with lists and with other values.
InitRequest ==
    \E k \in 0..MaxNodes :
        LET cfg == ClusterConfig(MaxNodes, "aws", 0, MaxNodes, 0)
        IN  \E used \in [1..k -> LastUsedChoices] :
                Constructed(cfg, k,
                            [n \in 1..k |->
                                SetUpTags(cfg, "A", CurrentLaunchTag(cfg, "A"))],
                            ByIp(k, used, StartTime), <<>>, <<>>)

RequestArguments == {PyList(v) : v \in DemandVectors} \cup NotLists

NextRequest ==
    \/ \E resources \in RequestArguments : request_resources(resources)
    \/ UpdateCall
    \/ StepTerminateIdle
    \/ StepTerminateExcess

SpecRequest == InitRequest /\ [][NextRequest]_vars

\* ------------------------------------------------- the launch accounting
\* A cluster without workers whose scheduler asks for any number of nodes
\* of either type, and a provider whose create_node fails or succeeds.
InitLaunch ==
    Constructed(ClusterConfig(MaxNodes, "aws", 0, MaxNodes, 0), 0, <<>>,
                ByIp(0, <<>>, StartTime), ByIp(0, <<>>, StartTime), <<>>)

LaunchCounts ==
    {a \in [NodeTypes -> 0..MaxLaunch] :
        a["A"] + a["B"] + PendingTotal <= MaxLaunch}

StepLaunchAny == \E answer \in LaunchCounts : LaunchAnswer(answer)

\* create_node succeeds only while the provider has node ids left.
LauncherEnds ==
    /\ launching # <<>>
    /\ \E ok \in BOOLEAN :
          /\ ok => Head(launching).count <= MaxNodes - Cardinality(UsedIds)
          /\ LauncherDone(ok)

NextLaunch ==
    \/ UpdateCall
    \/ StepTerminateIdle
    \/ StepTerminateExcess
    \/ StepLaunchAny
    \/ StepReap
    \/ StepDispatch
    \/ \E node_id \in NodeIds : SpawnUpdater(node_id)
    \/ StepRecover
    \/ Advance
    \/ LauncherTake
    \/ LauncherEnds

SpecLaunch == InitLaunch /\ [][NextLaunch]_vars

\* ------------------------------------------ should_update in a running cluster
\* A worker set up under an earlier runtime config.
StaleRuntimeTags(cfg, node_type, launch) ==
    [SetUpTags(cfg, node_type, launch) EXCEPT !.runtime = <<"runtime", "commands-0">>]

\* What one worker of a cluster that has been running for a while can look
\* like: its tags and its counts of successful and failed updates.
WorkerHistories(cfg) ==
    {h \in [tags : UNION {{SetUpTags(cfg, t, CurrentLaunchTag(cfg, t)),
                           StaleRuntimeTags(cfg, t, CurrentLaunchTag(cfg, t)),
                           FreshTags(cfg, t, CurrentLaunchTag(cfg, t))} :
                              t \in NodeTypes},
            succeeded : 0..1,
            failed : 0..1] :
        h.tags.status = "uninitialized" => h.succeeded = 0}

\* An autoscaler between two ticks, some updates behind it, under a config
\* with either of restart_only and no_restart.
InitUpdate ==
    \E restart_only \in BOOLEAN, no_restart \in BOOLEAN, k \in 1..MaxNodes :
        LET cfg == [ClusterConfig(MaxNodes, "aws", 0, MaxNodes, 0)
                        EXCEPT !.restart_only = restart_only,
                               !.no_restart = no_restart]
        IN  \E history \in [1..k -> WorkerHistories(cfg)] :
                /\ provider_nodes = [n \in 1..k |-> n]
                /\ node_tags = [n \in NodeIds |->
                                   IF n <= k THEN history[n].tags ELSE NoTags]
                /\ last_used_time_by_ip =
                       ByIp(k, [n \in 1..k |-> <<StartTime>>], StartTime)
                /\ last_heartbeat_time_by_ip =
                       ByIp(k, [n \in 1..k |-> <<StartTime>>], StartTime)
                /\ clock = StartTime
                /\ config_file = [readable |-> TRUE, yaml |-> cfg]
                /\ config = cfg
                /\ runtime_hash = hash_runtime_conf(cfg, FALSE).runtime_hash
                /\ file_mounts_contents_hash =
                       hash_runtime_conf(cfg, FALSE).file_mounts_contents_hash
                /\ available_node_types = cfg.available_node_types
                /\ scheduler_config =
                       SchedulerConfig(cfg.available_node_types,
                                       cfg.max_workers)
                /\ updaters = <<>>
                /\ num_failed_updates =
                       [n \in NodeIds |->
                           IF n <= k THEN history[n].failed ELSE 0]
                /\ num_successful_updates =
                       [n \in NodeIds |->
                           IF n <= k THEN history[n].succeeded ELSE 0]
                /\ num_failures = 0
                /\ last_update_time = 0
                /\ resource_demand_vector = <<>>
                /\ pending_launches = [t \in NodeTypes |-> 0]
                /\ launch_queue = <<>>
                /\ updater_threads = [n \in NodeIds |-> 0]
                /\ launching = <<>>
                /\ pc = "idle"
                /\ now = 0
                /\ nodes = <<>>
                /\ sorted_node_ids = <<>>
                /\ nodes_to_terminate = <<>>
                /\ to_launch = [t \in NodeTypes |-> 0]
                /\ T = {}
                /\ outcome = "none"
                /\ quiet = TRUE
                /\ failed_in_a_row = 0
                /\ last_request = [resources |-> PyList(<<>>), error |-> "none"]
                /\ exc = "none"

\* The scheduler has nothing to launch.
StepLaunchNothing == LaunchAnswer([t \in NodeTypes |-> 0])

NextUpdate ==
    \/ UpdateCall
    \/ StepTerminateIdle
    \/ StepTerminateExcess
    \/ StepLaunchNothing
    \/ StepReap
    \/ StepDispatch
    \/ \E node_id \in NodeIds : SpawnUpdater(node_id)
    \/ StepRecover

SpecUpdate == InitUpdate /\ [][NextUpdate]_vars

\* ------------------------------------------------ the config file changes
\* A mapping without one of its keys.
DropKey(mapping, key) == [k \in DOMAIN mapping \ {key} |-> mapping[k]]

\* Configs that differ in file_mounts_sync_continuously and in what
\* hash_runtime_conf digests.
RefreshConfigs ==
    {[ClusterConfig(MaxNodes, "aws", 0, MaxNodes, 0)
          EXCEPT !.file_mounts_sync_continuously = sync, !.runtime = r] :
        sync \in BOOLEAN, r \in {"commands-1", "commands-2"}}

\* What may be at config_path: a complete config, one that lacks max_workers,
\* one that lacks what hash_runtime_conf reads, or nothing readable.
ConfigFiles ==
    {[readable |-> TRUE, yaml |-> y] :
        y \in RefreshConfigs
                \cup {DropKey(c, "max_workers") : c \in RefreshConfigs}
                \cup {DropKey(c, "runtime") : c \in RefreshConfigs}}
    \cup {[readable |-> FALSE, yaml |-> config_file.yaml]}

\* Somebody edits, breaks or removes the file between two calls of update().
EditConfigFile ==
    /\ pc = "idle"
    /\ config_file' \in ConfigFiles \ {config_file}
    /\ UNCHANGED <<providerVars, metricVars, clock, config, runtime_hash,
                   file_mounts_contents_hash, available_node_types,
                   scheduler_config, updaterVars, num_failures,
                   last_update_time, resource_demand_vector, launchVars, pc,
                   localVars, outcome, exc, failed_in_a_row, last_request>>

\* The constructor has read one of the complete configs; at most one worker,
\* set up under that config and in use.
InitRefresh ==
    \E cfg \in RefreshConfigs, k \in 0..1 :
        Constructed(cfg, k,
                    [n \in 1..k |->
                        SetUpTags(cfg, "A", CurrentLaunchTag(cfg, "A"))],
                    ByIp(k, [n \in 1..k |-> <<StartTime - 60>>], StartTime),
                    ByIp(k, [n \in 1..k |-> <<StartTime>>], StartTime),
                    <<>>)

NextRefresh ==
    \/ EditConfigFile
    \/ UpdateCall
    \/ StepTerminateIdle
    \/ StepTerminateExcess
    \/ StepExcessRaises
    \/ StepLaunchNothing
    \/ StepReap
    \/ StepDispatch
    \/ \E node_id \in NodeIds : SpawnUpdater(node_id)
    \/ StepRecover
    \/ \E e \in {"MaxRetryError", "ProviderError"} : ProviderError(e)
    \/ ExceptHandler
    \/ Advance

SpecRefresh == InitRefresh /\ [][NextRefresh]_vars

\* ------------------------------------------- a cluster above its ceiling
\* Any number of workers against any max_workers, all set up, with load
\* metrics that know at least the head; nothing is launched.
InitCeiling ==
    \E k \in 0..MaxNodes, mw \in 0..MaxNodes, min_a \in 0..1 :
        LET cfg == ClusterConfig(mw, "aws", min_a, MaxNodes, 0)
        IN  \E used \in [1..k -> {NoReport, <<StartTime - 62>>,
                                  <<StartTime - 60>>}] :
                Constructed(cfg, k,
                            [n \in 1..k |->
                                SetUpTags(cfg, "A", CurrentLaunchTag(cfg, "A"))],
                            ByIp(k, used, StartTime),
                            ByIp(k, [n \in 1..k |-> <<StartTime>>], StartTime),
                            <<>>)

TickCeiling ==
    \/ UpdateCall
    \/ StepTerminateIdle
    \/ StepTerminateExcess
    \/ StepLaunchNothing
    \/ StepReap
    \/ StepDispatch
    \/ StepRecover

\* The monitor loop sleeps one interval after a call of update() that ran
\* the tick body, so that its next call runs the tick body too.
MonitorSleeps ==
    /\ last_update_time = clock
    /\ Advance

NextCeiling == TickCeiling \/ MonitorSleeps

\* The monitor keeps calling update() and sleeping.
SpecCeiling ==
    InitCeiling /\ [][NextCeiling]_vars
        /\ WF_vars(TickCeiling) /\ WF_vars(MonitorSleeps)

\* ================================================================ claims
\* The nodes a set of thread arguments is for.
Dispatched(args) == {a.node_id[1] : a \in args}

\* The heartbeat of node_id is known and at least the timeout old at time t.
HeartbeatLapsed(node_id, t) ==
    /\ internal_ip(node_id) \in DOMAIN last_heartbeat_time_by_ip
    /\ t - last_heartbeat_time_by_ip[internal_ip(node_id)] >= HeartbeatTimeoutS

\* C1: after a tick body that returned normally, with no launch in flight
\* when it started and none enqueued by it, the provider lists at most
\* max_workers workers.
C1_MaxWorkersBound ==
    (/\ pc = "idle"
     /\ outcome = "returned"
     /\ quiet
     /\ launch_queue = <<>>
     /\ launching = <<>>
     /\ PendingTotal = 0)
    => Len(provider_nodes) <= config.max_workers

\* C2: at most one live updater exists per node id: an updater is started
\* only for a node without an entry in updaters and is registered by the
\* step that starts it, an entry is removed only by the reap step once its
\* thread is no longer alive, and the recovery step runs only after every
\* node dispatched in step 6 is registered.
C2_Step ==
    /\ \A n \in NodeIds :
          /\ updater_threads'[n] <= 1
          /\ updater_threads'[n] > updater_threads[n]
                => /\ n \notin UpdaterKeys(updaters)
                   /\ UpdaterState(updaters', n) = "alive"
          /\ (n \in UpdaterKeys(updaters) /\ n \notin UpdaterKeys(updaters'))
                => /\ pc = "reap"
                   /\ UpdaterState(updaters, n) # "alive"
          /\ (n \in Dispatched(T) /\ n \notin Dispatched(T'))
                => UpdaterState(updaters', n) = "alive"
    /\ (pc = "spawn" /\ pc' = "idle") => T = {}

C2_NoDuplicateUpdater == [][C2_Step]_vars

\* A node dispatched in step 6 whose heartbeat had lapsed has exactly one
\* live updater after the recovery step examined it.
C2_Witness ==
    /\ pc = "idle"
    /\ outcome = "returned"
    /\ \E n \in Range(provider_nodes) :
          /\ updater_threads[n] = 1
          /\ UpdaterState(updaters, n) = "alive"
          /\ node_tags[n].status = "uninitialized"
          /\ HeartbeatLapsed(n, last_update_time)

\* C3: once num_failed_updates[n] > 0 the count never goes back to zero and
\* no step, neither the dispatch of step 6 nor the recovery of step 7,
\* starts another updater for n.
C3_Step ==
    \A n \in NodeIds :
        num_failed_updates[n] > 0
            => /\ num_failed_updates'[n] > 0
               /\ updater_threads'[n] <= updater_threads[n]
               /\ n \notin Dispatched(T')
               /\ UpdaterState(updaters', n) = "alive"
                     => UpdaterState(updaters, n) = "alive"

C3_FailedNodeNeverUpdatedAgain == [][C3_Step]_vars

\* A tick has returned with a failed node still listed, its launch hash
\* matching and its status not up to date, and no updater for it.
C3_Witness ==
    /\ pc = "idle"
    /\ outcome = "returned"
    /\ \E n \in Range(provider_nodes) :
          /\ num_failed_updates[n] > 0
          /\ launch_config_ok(n)
          /\ node_tags[n].status = "update-failed"
          /\ n \notin UpdaterKeys(updaters)
          /\ updater_threads[n] = 0

\* ------------------------------------------- steps 2 and 3 of one tick
\* The place of node n in the sorted snapshot of the tick.
PositionOf(n) == CHOOSE i \in 1..Len(sorted_node_ids) : sorted_node_ids[i] = n

\* n was last used before the idle horizon of the tick.
IdleAtTick(n) ==
    /\ internal_ip(n) \in DOMAIN last_used_time_by_ip
    /\ last_used_time_by_ip[internal_ip(n)]
           < now - 60 * config.idle_timeout_minutes

\* n is among the first min(min_workers, max_workers) nodes of its type in
\* the sorted snapshot.
WithinMinWorkers(n) ==
    /\ node_tags[n].type \in NodeTypes
    /\ LET t == node_tags[n].type
           before == {m \in Range(sorted_node_ids) :
                         /\ node_tags[m].type = t
                         /\ PositionOf(m) <= PositionOf(n)}
       IN  Cardinality(before)
               <= Min2(config.available_node_types[t].min_workers,
                       config.available_node_types[t].max_workers)

\* There is a resource request and the binpacking did not release n.
NeededForRequest(n) ==
    /\ resource_demand_vector # <<>>
    /\ LET allowed == get_nodes_allowed_to_terminate(sorted_node_ids)
       IN  n \in DOMAIN allowed /\ ~allowed[n]

Step2Done == pc = "terminate_excess"

Step3Done == pc = "launch"

\* C4: every worker of the snapshot whose launch hash differs from the hash
\* of the current config is in the termination batch of step 2 and gone
\* from the provider, whatever its idleness, min_workers or request
\* protection.
C4_OutdatedTerminated ==
    Step2Done =>
        \A n \in Range(sorted_node_ids) :
            ~launch_config_ok(n)
                => /\ n \in Range(nodes_to_terminate)
                   /\ n \notin Range(provider_nodes)

\* An outdated worker that is not idle, within min_workers and needed for
\* the request has been terminated by step 2.
C4_Witness ==
    /\ Step2Done
    /\ \E n \in Range(nodes_to_terminate) :
          /\ ~launch_config_ok(n)
          /\ ~IdleAtTick(n)
          /\ WithinMinWorkers(n)
          /\ NeededForRequest(n)
          /\ n \notin Range(provider_nodes)

\* C5: an idle worker is in the termination batch of step 2 unless it is
\* protected by min_workers or by request_resources and its launch hash
\* matches the current config.
C5_IdleTerminated ==
    Step2Done =>
        \A n \in Range(sorted_node_ids) :
            IdleAtTick(n)
                => (n \in Range(nodes_to_terminate)
                       <=> ~ (/\ WithinMinWorkers(n) \/ NeededForRequest(n)
                              /\ launch_config_ok(n)))

\* Step 2 terminated an idle worker with a matching launch hash and kept
\* one idle worker for min_workers and another for the request alone.
C5_Witness ==
    /\ Step2Done
    /\ \E n \in Range(nodes_to_terminate) :
          IdleAtTick(n) /\ launch_config_ok(n)
    /\ \E m \in Range(provider_nodes) :
          /\ IdleAtTick(m)
          /\ NeededForRequest(m)
          /\ ~WithinMinWorkers(m)

\* The workers of node type t in the snapshot of the tick.
WorkersOfType(t) == {n \in Range(sorted_node_ids) : node_tags[n].type = t}

\* All workers of type t are idle with a matching launch hash, there is no
\* resource request and the snapshot is within max_workers.
AllIdleAndCurrent(t) ==
    /\ \A n \in WorkersOfType(t) : IdleAtTick(n) /\ launch_config_ok(n)
    /\ resource_demand_vector = <<>>
    /\ Len(sorted_node_ids) <= config.max_workers

\* C6: of N idle, current workers of type t the tick keeps
\* min(min_workers, max_workers) (all N when there are fewer), terminates
\* the rest, and no kept worker was used less recently than a terminated
\* one.
C6_KeepsMostRecentlyUsed ==
    Step3Done =>
        \A t \in NodeTypes :
            AllIdleAndCurrent(t)
                => LET kept == WorkersOfType(t) \cap Range(provider_nodes)
                       gone == WorkersOfType(t) \ Range(provider_nodes)
                       floor ==
                           Min2(config.available_node_types[t].min_workers,
                                config.available_node_types[t].max_workers)
                   IN  /\ Cardinality(kept)
                              = Min2(Cardinality(WorkersOfType(t)), floor)
                       /\ \A k \in kept : \A g \in gone :
                             last_used_time_by_ip[internal_ip(k)]
                                 >= last_used_time_by_ip[internal_ip(g)]

\* Of the idle workers of one type the tick kept one that the provider
\* lists after a terminated one and that was used more recently.
C6_Witness ==
    /\ Step3Done
    /\ \E t \in NodeTypes :
          /\ AllIdleAndCurrent(t)
          /\ \E k \in WorkersOfType(t) \cap Range(provider_nodes) :
             \E g \in WorkersOfType(t) \ Range(provider_nodes) :
                /\ k > g
                /\ last_used_time_by_ip[internal_ip(k)]
                       > last_used_time_by_ip[internal_ip(g)]

\* The demand vector fits on the typed workers of ids, taken in that order.
Covers(ids) ==
    get_bin_pack_residual(MaxNodeResources(TypedNodeIds(ids)),
                          resource_demand_vector).unfulfilled = <<>>

\* The workers of the snapshot the binpacking put a request on.
UsedByBinpacking ==
    {n \in Range(sorted_node_ids) : Covers(sorted_node_ids)
                                    /\ NeededForRequest(n)}

StillListed == SelectSeq(sorted_node_ids, LAMBDA n : n \in Range(provider_nodes))

\* C7 as stated: a demand vector that fits on the workers present before
\* the tick still fits on the workers left after steps 2 and 3, and no
\* worker the binpacking used has been terminated.
C7_RequestPreserved ==
    (Step3Done /\ resource_demand_vector # <<>> /\ Covers(sorted_node_ids))
        => /\ UsedByBinpacking \subseteq Range(provider_nodes)
           /\ Covers(StillListed)

\* C7 amended: the same, provided every worker the binpacking used has a
\* matching launch hash and the snapshot is within max_workers.
C7_RequestPreservedWhenCurrent ==
    (/\ Step3Done
     /\ resource_demand_vector # <<>>
     /\ Covers(sorted_node_ids)
     /\ \A n \in UsedByBinpacking : launch_config_ok(n)
     /\ Len(sorted_node_ids) <= config.max_workers)
        => /\ UsedByBinpacking \subseteq Range(provider_nodes)
           /\ Covers(StillListed)

\* An idle worker outside min_workers that the binpacking used is still
\* listed after steps 2 and 3, while an unused idle worker is gone.
C7_Witness ==
    /\ Step3Done
    /\ resource_demand_vector # <<>>
    /\ Covers(sorted_node_ids)
    /\ \A n \in UsedByBinpacking : launch_config_ok(n)
    /\ Len(sorted_node_ids) <= config.max_workers
    /\ \E n \in UsedByBinpacking :
          /\ IdleAtTick(n)
          /\ ~WithinMinWorkers(n)
          /\ n \in Range(provider_nodes)
    /\ \E m \in Range(sorted_node_ids) : m \notin Range(provider_nodes)

\* ------------------------------------------------- update(), the wrapper
\* C8: every failing tick but a Kubernetes MaxRetryError adds one to
\* num_failures; update() swallows the failure while the count is at most
\* max_failures and re-raises it when the count reaches max_failures + 1;
\* a Kubernetes MaxRetryError leaves num_failures as it is.
C8_Step ==
    (pc = "except" /\ pc' # "except") =>
        IF config.provider.type = "kubernetes" /\ exc = "MaxRetryError"
        THEN num_failures' = num_failures
        ELSE /\ num_failures' = num_failures + 1
             /\ num_failures' <= MaxFailures
                   => (pc' = "idle" /\ outcome' = "swallowed")
             /\ num_failures' = MaxFailures + 1
                   => (pc' = "aborted" /\ outcome' = "raised")

C8_FailureBudget == [][C8_Step]_vars

\* With a non-Kubernetes provider update() has re-raised on failure number
\* max_failures + 1.
C8_Witness ==
    /\ pc = "aborted"
    /\ outcome = "raised"
    /\ config.provider.type # "kubernetes"
    /\ num_failures = MaxFailures + 1

\* C9 as stated: update() raises only when more than max_failures ticks
\* have failed in a row.
C9_RaisesOnlyAfterFailuresInARow ==
    outcome = "raised" => failed_in_a_row > MaxFailures

\* C9 amended: num_failures counts every failing tick since construction: it
\* changes only in the except clause, never goes down, a tick that returns
\* leaves it as it is, and update() raises exactly when it exceeds
\* max_failures.
C9_Step ==
    /\ num_failures' >= num_failures
    /\ pc # "except" => num_failures' = num_failures
    /\ (pc = "spawn" /\ pc' = "idle") => num_failures' = num_failures
    /\ (pc = "except" /\ pc' # "except")
          => (outcome' = "raised" <=> num_failures' > MaxFailures)

C9_FailuresAccumulate == [][C9_Step]_vars

\* update() has raised although a tick returned between the failures.
C9_Witness ==
    /\ outcome = "raised"
    /\ num_failures = MaxFailures + 1
    /\ failed_in_a_row <= MaxFailures

\* C10 as stated: the update() call that follows a failed tick runs the
\* tick body instead of being throttled.
C10_FailedTickStep ==
    (pc = "idle" /\ outcome = "swallowed" /\ outcome' # outcome)
        => outcome' = "running"

C10_FailedTickNotThrottled == [][C10_FailedTickStep]_vars

\* C10 amended: the gate is measured from the start of the last tick body,
\* whether that body returned or failed: update() skips the body when less
\* than update_interval_s has passed since last_update_time and runs it
\* otherwise, and last_update_time is the start time of the body from its
\* first step until it returns or its failure is handled.
C10_Step ==
    /\ (pc = "idle" /\ outcome' = "throttled" /\ outcome # "throttled")
          => /\ clock - last_update_time < UpdateIntervalS
             /\ pc' = "idle"
             /\ last_update_time' = last_update_time
    /\ (pc = "idle" /\ pc' # "idle")
          => /\ clock - last_update_time >= UpdateIntervalS
             /\ last_update_time' = clock
    /\ pc \notin {"idle", "aborted"}
          => /\ last_update_time = now
             /\ last_update_time' = last_update_time

C10_GateFromLastStart == [][C10_Step]_vars

\* The call that followed a failed tick was throttled.
C10_Witness ==
    /\ pc = "idle"
    /\ outcome = "throttled"
    /\ failed_in_a_row > 0
    /\ clock - last_update_time < UpdateIntervalS

\* ------------------------------------------------------ min_workers floor
FloorMet == \A t \in NodeTypes : Cardinality(ListedOfType(t)) >= Floor(t)

\* C11: with a provider that creates every requested node and a scheduler
\* that asks for the min_workers shortfall, eventually every node type has at
\* least min(min_workers, max_workers) listed workers, and keeps them.
C11_MinWorkersFloor == <>[]FloorMet

\* ------------------------------------------------------ request_resources
\* Everything but resource_demand_vector and the record of the last call.
OtherThanRequest ==
    <<providerVars, metricVars, clock, configVars, updaterVars, num_failures,
      last_update_time, launchVars, pc, localVars, outcome, exc,
      failed_in_a_row>>

\* With an empty demand vector step 2 has terminated every idle worker that
\* is outside min_workers.
NoRequestProtection ==
    (Step2Done /\ resource_demand_vector = <<>>)
        => \A n \in Range(sorted_node_ids) :
              (IdleAtTick(n) /\ ~WithinMinWorkers(n))
                  => n \in Range(nodes_to_terminate)

\* C12: a request_resources call with a list makes resource_demand_vector
\* exactly that list, and an empty list leaves no request protection in the
\* next tick; a call with anything else raises and changes nothing; no other
\* step changes resource_demand_vector.
C12_Step ==
    /\ last_request' # last_request
          => /\ UNCHANGED OtherThanRequest
             /\ IF last_request'.resources.type = "list"
                THEN /\ last_request'.error = "none"
                     /\ resource_demand_vector' = last_request'.resources.items
                ELSE /\ last_request'.error = "AssertionError"
                     /\ resource_demand_vector' = resource_demand_vector
    /\ last_request' = last_request
          => resource_demand_vector' = resource_demand_vector
    /\ NoRequestProtection'

C12_RequestReplacesWholesale == [][C12_Step]_vars

\* A call with a value that is no list has raised and the vector of an
\* earlier call is still in place.
C12_Witness ==
    /\ last_request.resources.type # "list"
    /\ last_request.error = "AssertionError"
    /\ resource_demand_vector # <<>>

\* --------------------------------------------- workers the tick leaves alone
\* C13: when the snapshot of the tick is within max_workers, a worker whose
\* launch hash matches and that is not idle (no last_used entry, or one not
\* older than the horizon) is still listed after steps 2 and 3, whatever
\* the tick did to the other workers.
C13_BusyCurrentWorkerKept ==
    ((Step2Done \/ Step3Done) /\ Len(sorted_node_ids) <= config.max_workers)
        => \A n \in Range(sorted_node_ids) :
              (launch_config_ok(n) /\ ~IdleAtTick(n))
                  => n \in Range(provider_nodes)

\* A busy, current worker that neither min_workers nor the request protects
\* is still listed after step 3 of a tick that terminated an outdated worker.
C13_Witness ==
    /\ Step3Done
    /\ Len(sorted_node_ids) <= config.max_workers
    /\ \E n \in Range(sorted_node_ids) \cap Range(provider_nodes) :
          /\ launch_config_ok(n)
          /\ ~IdleAtTick(n)
          /\ ~WithinMinWorkers(n)
          /\ ~NeededForRequest(n)
    /\ \E g \in Range(sorted_node_ids) \ Range(provider_nodes) :
          ~launch_config_ok(g)

\* ------------------------------------------------- order within one tick
\* The order in which a tick body passes through its steps.
TickOrder ==
    {<<"idle", "terminate_idle">>, <<"terminate_idle", "terminate_excess">>,
     <<"terminate_excess", "launch">>, <<"launch", "reap">>,
     <<"reap", "dispatch">>, <<"dispatch", "spawn">>, <<"spawn", "idle">>}

\* The tick body was left by an exception.
TickRaised == pc' \in {"except", "aborted"} \/ pc = "except"

\* C14: within a tick, nodes leave the provider only in steps 2 and 3, which
\* come before step 4, the only step that enqueues launch requests; updaters
\* are reaped (removed and counted) only in step 5, before the dispatch;
\* every dispatched thread registers its updater, and the recovery probes
\* start only when no dispatched thread is left.
C14_Step ==
    /\ pc' # pc => (<<pc, pc'>> \in TickOrder \/ TickRaised)
    /\ ~(Range(provider_nodes) \subseteq Range(provider_nodes'))
          => pc \in {"terminate_idle", "terminate_excess"}
    /\ Len(launch_queue') > Len(launch_queue) => pc = "launch"
    /\ (\/ ~(UpdaterKeys(updaters) \subseteq UpdaterKeys(updaters'))
        \/ num_successful_updates' # num_successful_updates
        \/ num_failed_updates' # num_failed_updates)
          => (pc = "reap" /\ pc' = "dispatch")
    /\ T' # T
          => \/ pc = "dispatch" /\ pc' = "spawn"
             \/ /\ pc = "spawn" /\ pc' = "spawn"
                /\ \E node_id \in Dispatched(T) :
                      /\ Dispatched(T') = Dispatched(T) \ {node_id}
                      /\ UpdaterState(updaters', node_id) = "alive"
    /\ (pc = "spawn" /\ pc' = "idle") => T = {}

C14_TickOrder == [][C14_Step]_vars

\* A tick that terminated a worker and then enqueued a launch has passed
\* the reaping and the dispatch and is about to probe for recovery.
C14_Witness ==
    /\ pc = "spawn"
    /\ T = {}
    /\ Len(provider_nodes) < Len(sorted_node_ids)
    /\ to_launch["A"] > 0
    /\ launch_queue # <<>>

\* ------------------------------------------------------ pending launches
\* The total batch size of the requests of node type t in a queue.
RECURSIVE BatchTotal(_, _)
BatchTotal(requests, t) ==
    IF requests = <<>> THEN 0
    ELSE (IF Head(requests).node_type = t THEN Head(requests).count ELSE 0)
             + BatchTotal(Tail(requests), t)

\* The requests step 4 has put on the queue.
Enqueued == SubSeq(launch_queue', Len(launch_queue) + 1, Len(launch_queue'))

\* C15: step 4 raises pending_launches[t] by the count it launches and
\* enqueues requests of 1 to max_launch_batch nodes that add up to that
\* count; a launcher that ends lowers it by its batch size, created or not;
\* pending_launches[t] is always the total batch size of the queued and
\* running requests of type t, never negative, and 0 with nothing in flight.
C15_Step ==
    /\ (pc = "launch" /\ pc' = "reap")
          => \A t \in NodeTypes :
                /\ pending_launches'[t] = pending_launches[t] + to_launch'[t]
                /\ BatchTotal(Enqueued, t) = to_launch'[t]
                /\ \A i \in 1..Len(Enqueued) :
                      Enqueued[i].count \in 1..MaxLaunchBatch
    /\ Len(launching') < Len(launching)
          => pending_launches' =
                 [pending_launches EXCEPT ![Head(launching).node_type] =
                     @ - Head(launching).count]
    /\ \A t \in NodeTypes :
          /\ pending_launches'[t]
                 = BatchTotal(launch_queue', t) + BatchTotal(launching', t)
          /\ pending_launches'[t] >= 0
    /\ (launch_queue' = <<>> /\ launching' = <<>>)
          => \A t \in NodeTypes : pending_launches'[t] = 0

Ended == {n \in NodeIds : UpdaterState(updaters, n) \in {"exit0", "exit1"}}

\* C16: step 5 counts every ended updater once, as a success on exit code 0
\* and as a failure otherwise, deletes it from updaters and marks its node's
\* ip active; updaters that are alive stay as they are.
C16_Step ==
    (pc = "reap" /\ pc' = "dispatch")
        => /\ \A n \in Ended :
                /\ num_successful_updates'[n] = num_successful_updates[n]
                       + (IF UpdaterState(updaters, n) = "exit0" THEN 1 ELSE 0)
                /\ num_failed_updates'[n] = num_failed_updates[n]
                       + (IF UpdaterState(updaters, n) = "exit1" THEN 1 ELSE 0)
                /\ n \notin UpdaterKeys(updaters')
                /\ internal_ip(n) \in DOMAIN last_heartbeat_time_by_ip'
                /\ last_heartbeat_time_by_ip'[internal_ip(n)] = clock
           /\ \A n \in NodeIds \ Ended :
                /\ UpdaterState(updaters', n) = UpdaterState(updaters, n)
                /\ num_successful_updates'[n] = num_successful_updates[n]
                /\ num_failed_updates'[n] = num_failed_updates[n]

C16_ReapMarksEveryIpActive == [][C16_Step]_vars

\* ------------------------------------------------------- should_update
\* The node has had a successful update.
PriorSuccess(n) == num_successful_updates[n] > 0

\* The node-type setup commands of node n, or the config's when its type
\* has none of its own.
SetupCommandsOf(n) ==
    IF "worker_setup_commands"
           \in DOMAIN config.available_node_types[node_tags[n].type]
    THEN config.available_node_types[node_tags[n].type].worker_setup_commands
    ELSE config.worker_setup_commands

\* The thread arguments step 6 has made for node n.
ArgsFor(args, n) == {a \in args : a.node_id = <<n>>}

\* C17: step 6 makes no thread for a node that cannot be updated or that is
\* up to date in status and files; for any other node it makes one thread,
\* with no setup commands and the start commands when the node has a prior
\* successful update and restart_only is set, else with the setup commands
\* and no start commands when it has a prior successful update and
\* no_restart is set, else with both.
C17_Step ==
    (pc = "dispatch" /\ pc' = "spawn")
        => /\ Dispatched(T') \subseteq Range(nodes)
           /\ \A n \in Range(nodes) :
                IF \/ ~can_update(updaters, n)
                   \/ /\ node_tags[n].status = STATUS_UP_TO_DATE
                      /\ files_up_to_date(n)
                THEN ArgsFor(T', n) = {}
                ELSE \E a \in T' :
                        /\ ArgsFor(T', n) = {a}
                        /\ (PriorSuccess(n) /\ config.restart_only)
                              => /\ a.init_commands = <<>>
                                 /\ a.start_ray_commands
                                        = config.worker_start_ray_commands
                        /\ (PriorSuccess(n) /\ ~config.restart_only
                                /\ config.no_restart)
                              => /\ a.init_commands = SetupCommandsOf(n)
                                 /\ a.start_ray_commands = <<>>
                        /\ (\/ ~PriorSuccess(n)
                            \/ (~config.restart_only /\ ~config.no_restart))
                              => /\ a.init_commands = SetupCommandsOf(n)
                                 /\ a.start_ray_commands
                                        = config.worker_start_ray_commands

C17_ShouldUpdateTable == [][C17_Step]_vars

\* With restart_only and no_restart both set, step 6 has made a thread with
\* the start commands alone for a node with a prior successful update and a
\* thread with both command lists for a node without one.
C17_Witness ==
    /\ pc = "spawn"
    /\ config.restart_only /\ config.no_restart
    /\ \E a \in T : \E b \in T :
          /\ PriorSuccess(a.node_id[1])
          /\ a.init_commands = <<>>
          /\ a.start_ray_commands # <<>>
          /\ ~PriorSuccess(b.node_id[1])
          /\ b.init_commands # <<>>
          /\ b.start_ray_commands # <<>>

\* ------------------------------------------------------ recover_if_needed
\* The recovery step has started and registered an updater for node n.
RecoveryStarted(n) ==
    /\ updater_threads'[n] = updater_threads[n] + 1
    /\ UpdaterState(updaters', n) = "alive"

\* The probe of node n finds no heartbeat entry, sets it to now and starts
\* nothing.
MissingHeartbeatInitialised(n) ==
    (can_update(updaters, n)
         /\ internal_ip(n) \notin DOMAIN last_heartbeat_time_by_ip)
        => /\ internal_ip(n) \in DOMAIN last_heartbeat_time_by_ip'
           /\ last_heartbeat_time_by_ip'[internal_ip(n)] = now
           /\ ~RecoveryStarted(n)

\* C18 as stated: the recovery step starts an updater for a node exactly
\* when the node can be updated and its last heartbeat is more than the
\* timeout before now; a node without a heartbeat entry gets now as its
\* entry and no recovery.
C18_StepStrict ==
    (pc = "spawn" /\ pc' = "idle")
        => \A n \in Range(nodes) :
              /\ RecoveryStarted(n)
                    <=> /\ can_update(updaters, n)
                        /\ internal_ip(n) \in DOMAIN last_heartbeat_time_by_ip
                        /\ now - last_heartbeat_time_by_ip[internal_ip(n)]
                               > HeartbeatTimeoutS
              /\ MissingHeartbeatInitialised(n)

C18_RecoversOnlyAfterTimeout == [][C18_StepStrict]_vars

\* C18, amended: the recovery step starts an updater for a node exactly
\* when the node can be updated and its last heartbeat is at least the
\* timeout before now; a node without a heartbeat entry gets now as its
\* entry and no recovery.
C18_Step ==
    (pc = "spawn" /\ pc' = "idle")
        => \A n \in Range(nodes) :
              /\ RecoveryStarted(n)
                    <=> /\ can_update(updaters, n)
                        /\ internal_ip(n) \in DOMAIN last_heartbeat_time_by_ip
                        /\ now - last_heartbeat_time_by_ip[internal_ip(n)]
                               >= HeartbeatTimeoutS
              /\ MissingHeartbeatInitialised(n)

C18_RecoversFromTimeout == [][C18_Step]_vars

\* A tick has started a recovery updater for a node whose last heartbeat
\* was exactly the timeout before now.
C18_Witness ==
    /\ pc = "idle"
    /\ outcome = "returned"
    /\ \E n \in Range(provider_nodes) :
          /\ UpdaterState(updaters, n) = "alive"
          /\ node_tags[n].status = STATUS_UP_TO_DATE
          /\ internal_ip(n) \in DOMAIN last_heartbeat_time_by_ip
          /\ last_update_time - last_heartbeat_time_by_ip[internal_ip(n)]
                 = HeartbeatTimeoutS

\* ------------------------------------------------- which workers are excess
\* C19: every worker step 3 terminated as excess was last used no later
\* than every worker that is still listed after step 3 (a worker without a
\* last_used entry counts as used before all others, as in the sort).
C19_ExcessIsLeastRecentlyUsed ==
    Step3Done =>
        LET last_time_used ==
                UpdatedLastUsed(sorted_node_ids, last_used_time_by_ip)
        IN  \A g \in Range(nodes_to_terminate) :
            \A k \in Range(provider_nodes) :
                last_time_used[g] <= last_time_used[k]

\* ----------------------------------------------------- the throttled tick
\* update() is called less than update_interval_s after the last tick body
\* started.
WithinInterval == clock - last_update_time < UpdateIntervalS

\* C20: a call of update() within the interval starts no tick body, and the
\* step that returns "throttled" leaves the provider, the launch queue and
\* the launches in progress, the updaters and their threads, the update
\* counts, pending_launches, last_update_time and num_failures as they
\* were.
C20_Step ==
    /\ (pc = "idle" /\ WithinInterval) => pc' = "idle"
    /\ (pc = "idle" /\ outcome # "throttled" /\ outcome' = "throttled")
          => /\ WithinInterval
             /\ UNCHANGED <<providerVars, metricVars, launchVars,
                            updaterVars, num_failures, last_update_time,
                            resource_demand_vector, clock, pc>>

C20_ThrottledTickLeavesAll == [][C20_Step]_vars

\* A throttled call has returned while an ended updater waits to be reaped
\* and a launch request waits in the queue.
C20_Witness ==
    /\ pc = "idle"
    /\ outcome = "throttled"
    /\ \E i \in 1..Len(updaters) : updaters[i].state # "alive"
    /\ launch_queue # <<>>

\* ------------------------------------------------------ the config refresh
\* C21: file_mounts_contents_hash is defined exactly when the config the
\* autoscaler holds has file_mounts_sync_continuously enabled, so that
\* files_up_to_date compares the RAY_FILE_MOUNTS_CONTENTS tag exactly then.
C21_ContentsHashFollowsFlag ==
    /\ (file_mounts_contents_hash # None)
           <=> config.file_mounts_sync_continuously
    /\ \A n \in Range(provider_nodes) :
          files_up_to_date(n)
              <=> /\ node_tags[n].runtime = runtime_hash
                  /\ config.file_mounts_sync_continuously
                        => node_tags[n].contents = file_mounts_contents_hash

\* C22 as stated: an update() call whose config refresh fails raises
\* num_failures by one.
C22_StepCounted ==
    (pc = "idle" /\ pc' = "terminate_idle" /\ RefreshFails)
        => num_failures' = num_failures + 1

C22_RefreshFailureCounted == [][C22_StepCounted]_vars

\* C22, amended: an update() call whose config refresh fails leaves
\* num_failures as it was and goes on to the gate and the tick body;
\* num_failures changes only in the except clause of update(), by one.
C22_Step ==
    /\ (pc = "idle" /\ RefreshFails)
          => /\ num_failures' = num_failures
             /\ pc' \in {"idle", "terminate_idle"}
    /\ num_failures' # num_failures
          => /\ pc = "except"
             /\ num_failures' = num_failures + 1

C22_RefreshFailureSwallowed == [][C22_Step]_vars

\* A tick body runs after a refresh that could not read the file, with no
\* failure counted.
C22_Witness ==
    /\ pc = "terminate_idle"
    /\ ~config_file.readable
    /\ num_failures = 0
    /\ last_update_time = clock

\* C26: a refresh that fails leaves config, runtime_hash,
\* file_mounts_contents_hash, available_node_types and the demand scheduler's
\* configuration as they were, so every tick body runs with the scheduler and
\* available_node_types in step with config.
C26_Step ==
    /\ (pc = "idle" /\ RefreshFails)
          => UNCHANGED <<config, runtime_hash, file_mounts_contents_hash,
                         available_node_types, scheduler_config>>
    /\ pc' = "terminate_idle"
          => /\ available_node_types' = config'.available_node_types
             /\ "max_workers" \in DOMAIN config'
             /\ scheduler_config' =
                    SchedulerConfig(config'.available_node_types,
                                    config'.max_workers)

C26_RefreshAllOrNothing == [][C26_Step]_vars

\* ------------------------------------------------------------- cold start
\* C23: a tick body that starts with no worker listed gets through step 2
\* without raising, whatever the load metrics hold, and with min_workers = 2
\* for type A and nothing pending its launch step leaves
\* pending_launches[A] = 2 and queued requests for 2 nodes of type A.
C23_Step ==
    /\ (pc = "terminate_idle" /\ provider_nodes = <<>>)
          => pc' \in {"terminate_idle", "terminate_excess"}
    /\ (pc = "launch" /\ pc' = "reap" /\ provider_nodes = <<>>
            /\ Floor("A") = 2 /\ pending_launches["A"] = 0)
          => /\ pending_launches'["A"] = 2
             /\ BatchTotal(launch_queue', "A") = 2

C23_ColdStartCompletes == [][C23_Step]_vars

\* ------------------------------------------- the floor of healthy workers
\* The workers of type t in the snapshot whose launch hash matches.
HealthyOfType(t) == {n \in WorkersOfType(t) : launch_config_ok(n)}

\* C24: of the k workers of a type whose launch hash matches, at least
\* min(k, min_workers, max_workers) are still listed after step 2.
C24_HealthyFloorKept ==
    Step2Done =>
        \A t \in NodeTypes :
            Cardinality(HealthyOfType(t) \cap Range(provider_nodes))
                >= Min2(Cardinality(HealthyOfType(t)), Floor(t))

\* ------------------------------------------------------------ the ceiling
WithinCeiling == Len(provider_nodes) <= config.max_workers

\* C25: with nothing launched and every tick body returning, the number of
\* listed workers is eventually at most max_workers and stays so.
C25_ConvergesToCeiling == <>[]WithinCeiling

\* The second tick still found excess workers and its step 3 has brought
\* the listing within max_workers.
C25_Witness ==
    /\ pc = "launch"
    /\ now > StartTime
    /\ nodes_to_terminate # <<>>
    /\ WithinCeiling

====
